---- MODULE Spec2Model ----
(***************************************************************************)
(* Model of the quoridor-bot engine: board geometry (data_model.rs), move  *)
(* legality and execution (game_logic.rs), the A* pathfinder (a_star.rs)   *)
(* and the alpha-beta search with its static evaluation (bot.rs).          *)
(***************************************************************************)
EXTENDS Integers, Sequences, FiniteSets, TLC

VARIABLES
    player,            \* Game.player: the player to move
    walls,             \* Game.board.walls[x][y]: "None" | "Horizontal" | "Vertical"
    player_positions,  \* Game.board.player_positions[i].index, i = as_index
    walls_left,        \* Game.walls_left[i]
    plies,             \* number of moves the driver has applied (bounded)
    op,                \* the operation that produced this state
    arg,               \* the arguments of that operation
    ret                \* what that operation returned

vars == <<player, walls, player_positions, walls_left, plies, op, arg, ret>>

----------------------------------------------------------------------------
(* data_model.rs *)

PIECE_GRID_WIDTH == 9
PIECE_GRID_HEIGHT == 9
WALL_GRID_WIDTH == PIECE_GRID_WIDTH - 1
WALL_GRID_HEIGHT == PIECE_GRID_HEIGHT - 1
INITIAL_WALLS == 10

Players == {"White", "Black"}
Orientations == <<"Horizontal", "Vertical">>
\* Direction::iter(): the declaration order of the enum
Directions == <<"Up", "Down", "Left", "Right">>

SeqRange(s) == {s[i] : i \in DOMAIN s}

opponent(p) == IF p = "White" THEN "Black" ELSE "White"

as_index(p) == IF p = "White" THEN 0 ELSE 1

to_offset(d) ==
    CASE d = "Up" -> <<0, -1>>
      [] d = "Down" -> <<0, 1>>
      [] d = "Left" -> <<-1, 0>>
      [] d = "Right" -> <<1, 0>>

\* PiecePosition is its index; new, x and y convert
PiecePosition(px, py) == py * PIECE_GRID_WIDTH + px
X(pos) == pos % PIECE_GRID_WIDTH
Y(pos) == pos \div PIECE_GRID_WIDTH

\* MovePiece::iter(): direction outer, direction_on_collision inner
MovePieces ==
    [i \in 1..16 |-> [direction |-> Directions[((i - 1) \div 4) + 1],
                      direction_on_collision |-> Directions[((i - 1) % 4) + 1]]]

EmptyWalls == [wx \in 0..(WALL_GRID_WIDTH - 1) |-> [wy \in 0..(WALL_GRID_HEIGHT - 1) |-> "None"]]

\* a Board value: the walls and the two positions
MkBoard(w, pp) == [walls |-> w, player_positions |-> pp]

\* a Game value
MkGame(p, w, pp, wl) == [player |-> p, board |-> MkBoard(w, pp), walls_left |-> wl]

Board_new == MkBoard(EmptyWalls, [i \in 0..1 |-> IF i = 0 THEN PiecePosition(4, 0) ELSE PiecePosition(4, 8)])

Board_new_with_initial_moves_skipped ==
    MkBoard(EmptyWalls, [i \in 0..1 |-> IF i = 0 THEN PiecePosition(4, 3) ELSE PiecePosition(4, 5)])

Game_new == [player |-> "White", board |-> Board_new,
             walls_left |-> [i \in 0..1 |-> INITIAL_WALLS]]

Game_new_with_initial_moves_skipped ==
    [player |-> "White", board |-> Board_new_with_initial_moves_skipped,
     walls_left |-> [i \in 0..1 |-> INITIAL_WALLS]]

wall_at(board, wall_orientation, wall_pos_x, wall_pos_y) ==
    /\ wall_pos_x >= 0
    /\ wall_pos_y >= 0
    /\ wall_pos_x < WALL_GRID_WIDTH
    /\ wall_pos_y < WALL_GRID_HEIGHT
    /\ board.walls[wall_pos_x][wall_pos_y] = wall_orientation

player_position(board, p) == board.player_positions[as_index(p)]

----------------------------------------------------------------------------
(* game_logic.rs *)

\* only the wall slot on one side of the edge looked at
is_move_direction_legal_one_slot(board, pos, direction) ==
    CASE direction = "Up" ->
            /\ Y(pos) > 0
            /\ ~wall_at(board, "Horizontal", X(pos) - 1, Y(pos) - 1)
      [] direction = "Down" ->
            /\ Y(pos) < PIECE_GRID_HEIGHT - 1
            /\ ~wall_at(board, "Horizontal", X(pos) - 1, Y(pos))
      [] direction = "Left" ->
            /\ X(pos) > 0
            /\ ~wall_at(board, "Vertical", X(pos) - 1, Y(pos))
      [] direction = "Right" ->
            /\ X(pos) < PIECE_GRID_HEIGHT - 1
            /\ ~wall_at(board, "Vertical", X(pos), Y(pos))

is_move_direction_legal_with_player_at_position(board, pos, direction) ==
    CASE direction = "Up" ->
            /\ Y(pos) > 0
            /\ ~wall_at(board, "Horizontal", X(pos) - 1, Y(pos) - 1)
            /\ ~wall_at(board, "Horizontal", X(pos), Y(pos) - 1)
      [] direction = "Down" ->
            /\ Y(pos) < PIECE_GRID_HEIGHT - 1
            /\ ~wall_at(board, "Horizontal", X(pos) - 1, Y(pos))
            /\ ~wall_at(board, "Horizontal", X(pos), Y(pos))
      [] direction = "Left" ->
            /\ X(pos) > 0
            /\ ~wall_at(board, "Vertical", X(pos) - 1, Y(pos))
            /\ ~wall_at(board, "Vertical", X(pos) - 1, Y(pos) - 1)
      [] direction = "Right" ->
            /\ X(pos) < PIECE_GRID_HEIGHT - 1
            /\ ~wall_at(board, "Vertical", X(pos), Y(pos))
            /\ ~wall_at(board, "Vertical", X(pos), Y(pos) - 1)

\* only ever applied to a direction that passed the legality test, so the
\* isize -> usize casts never see a negative value
new_position_after_direction_unchecked(pos, direction) ==
    PiecePosition(X(pos) + to_offset(direction)[1], Y(pos) + to_offset(direction)[2])

is_move_piece_legal_with_player_at_position(board, p, pos, move_piece) ==
    IF is_move_direction_legal_with_player_at_position(board, pos, move_piece.direction)
    THEN LET new_position == new_position_after_direction_unchecked(pos, move_piece.direction)
         IN  IF new_position = player_position(board, opponent(p))
             THEN is_move_direction_legal_with_player_at_position(
                      board, new_position, move_piece.direction_on_collision)
             ELSE TRUE
    ELSE FALSE

\* the step taken onto the opponent's cell, without the jump
new_position_without_jump(pos, move_piece, opponent_position) ==
    new_position_after_direction_unchecked(pos, move_piece.direction)

new_position_after_move_piece_unchecked(pos, move_piece, opponent_position) ==
    LET new_position == new_position_after_direction_unchecked(pos, move_piece.direction)
    IN  IF opponent_position = new_position
        THEN new_position_after_direction_unchecked(opponent_position,
                                                    move_piece.direction_on_collision)
        ELSE new_position

\* the neighbour before the slot left out of the three offsets
room_for_wall_placement_two_offsets(board, orientation, wx, wy) ==
    LET offsets_to_check ==
            IF orientation = "Horizontal"
            THEN <<<<0, 0>>, <<1, 0>>>>
            ELSE <<<<0, 0>>, <<0, 1>>>>
        other_orientation ==
            IF orientation = "Horizontal" THEN "Vertical" ELSE "Horizontal"
    IN  /\ \A i \in 1..2 :
              ~wall_at(board, orientation, wx + offsets_to_check[i][1],
                                           wy + offsets_to_check[i][2])
        /\ ~wall_at(board, other_orientation, wx, wy)
        /\ wx >= 0
        /\ wy >= 0
        /\ wx < WALL_GRID_WIDTH
        /\ wy < WALL_GRID_HEIGHT

\* the slot is only tested for walls of the orientation to be placed
room_for_wall_placement_same_orientation(board, orientation, wx, wy) ==
    LET offsets_to_check ==
            IF orientation = "Horizontal"
            THEN <<<<-1, 0>>, <<0, 0>>, <<1, 0>>>>
            ELSE <<<<0, -1>>, <<0, 0>>, <<0, 1>>>>
    IN  /\ \A i \in 1..3 :
              ~wall_at(board, orientation, wx + offsets_to_check[i][1],
                                           wy + offsets_to_check[i][2])
        /\ wx >= 0
        /\ wy >= 0
        /\ wx < WALL_GRID_WIDTH
        /\ wy < WALL_GRID_HEIGHT

\* the neighbour slot past the placement is not tested
room_for_wall_placement_behind_only(board, orientation, wx, wy) ==
    LET offsets_to_check ==
            IF orientation = "Horizontal"
            THEN <<<<-1, 0>>, <<0, 0>>>>
            ELSE <<<<0, -1>>, <<0, 0>>>>
        other_orientation ==
            IF orientation = "Horizontal" THEN "Vertical" ELSE "Horizontal"
    IN  /\ \A i \in 1..2 :
              ~wall_at(board, orientation, wx + offsets_to_check[i][1],
                                           wy + offsets_to_check[i][2])
        /\ ~wall_at(board, other_orientation, wx, wy)
        /\ wx >= 0
        /\ wy >= 0
        /\ wx < WALL_GRID_WIDTH
        /\ wy < WALL_GRID_HEIGHT

\* the slot is not tested for lying in the wall grid
room_for_wall_placement_unbounded(board, orientation, wx, wy) ==
    LET offsets_to_check ==
            IF orientation = "Horizontal"
            THEN <<<<-1, 0>>, <<0, 0>>, <<1, 0>>>>
            ELSE <<<<0, -1>>, <<0, 0>>, <<0, 1>>>>
        other_orientation ==
            IF orientation = "Horizontal" THEN "Vertical" ELSE "Horizontal"
    IN  /\ \A i \in 1..3 :
              ~wall_at(board, orientation, wx + offsets_to_check[i][1],
                                           wy + offsets_to_check[i][2])
        /\ ~wall_at(board, other_orientation, wx, wy)

room_for_wall_placement(board, orientation, wx, wy) ==
    LET offsets_to_check ==
            IF orientation = "Horizontal"
            THEN <<<<-1, 0>>, <<0, 0>>, <<1, 0>>>>
            ELSE <<<<0, -1>>, <<0, 0>>, <<0, 1>>>>
        other_orientation ==
            IF orientation = "Horizontal" THEN "Vertical" ELSE "Horizontal"
    IN  /\ \A i \in 1..3 :
              ~wall_at(board, orientation, wx + offsets_to_check[i][1],
                                           wy + offsets_to_check[i][2])
        /\ ~wall_at(board, other_orientation, wx, wy)
        /\ wx >= 0
        /\ wy >= 0
        /\ wx < WALL_GRID_WIDTH
        /\ wy < WALL_GRID_HEIGHT

\* the turn is passed on by piece moves only
execute_move_unchecked_turn_kept_on_wall(game, p, player_move) ==
    IF player_move.type = "PlaceWall"
    THEN [player |-> game.player,
          board |-> [game.board EXCEPT
                        !.walls[player_move.x][player_move.y] = player_move.orientation],
          walls_left |-> [game.walls_left EXCEPT ![as_index(p)] = @ - 1]]
    ELSE [player |-> opponent(p),
          board |-> [game.board EXCEPT
                        !.player_positions[as_index(p)] =
                            new_position_after_move_piece_unchecked(
                                player_position(game.board, p),
                                player_move.move_piece,
                                player_position(game.board, opponent(p)))],
          walls_left |-> game.walls_left]

\* game is a Game value; the result is the Game after the move
execute_move_unchecked(game, p, player_move) ==
    IF player_move.type = "PlaceWall"
    THEN [player |-> opponent(p),
          board |-> [game.board EXCEPT
                        !.walls[player_move.x][player_move.y] = player_move.orientation],
          walls_left |-> [game.walls_left EXCEPT ![as_index(p)] = @ - 1]]
    ELSE [player |-> opponent(p),
          board |-> [game.board EXCEPT
                        !.player_positions[as_index(p)] =
                            new_position_after_move_piece_unchecked(
                                player_position(game.board, p),
                                player_move.move_piece,
                                player_position(game.board, opponent(p)))],
          walls_left |-> game.walls_left]

\* execute_move_unchecked panics: walls[position.x][position.y] is indexed
\* outside the arrays, or walls_left[player] -= 1 is applied to 0 (an
\* overflow panic in a build with overflow checks)
execute_move_unchecked_panics(game, p, player_move) ==
    /\ player_move.type = "PlaceWall"
    /\ \/ player_move.x >= WALL_GRID_WIDTH
       \/ player_move.y >= WALL_GRID_HEIGHT
       \/ game.walls_left[as_index(p)] = 0

----------------------------------------------------------------------------
(* a_star.rs *)

None == [some |-> FALSE, path |-> <<>>]
Some(v) == [some |-> TRUE, path |-> v]

\* the goal rows of the two players exchanged
heuristic_swapped(pos, p) ==
    IF p = "White" THEN Y(pos) ELSE PIECE_GRID_HEIGHT - 1 - Y(pos)

heuristic(pos, p) ==
    IF p = "White" THEN PIECE_GRID_HEIGHT - 1 - Y(pos) ELSE Y(pos)

\* the cells the 16 MovePiece values lead to from pos, illegal ones dropped.
\* a_star's loop gives every neighbour the same tentative g and the same
\* came_from entry, so the order and the repetitions of the Vec do not
\* influence the outcome: the set of its elements is kept.
\* the moves that end in a column to the right are left out
neighbors_never_rightwards(board, p, pos) ==
    {n \in {new_position_after_move_piece_unchecked(pos, MovePieces[i],
                                             player_position(board, opponent(p))) :
               i \in {j \in 1..16 :
                 is_move_piece_legal_with_player_at_position(board, p, pos, MovePieces[j])}} :
        X(n) <= X(pos)}

neighbors(board, p, pos) ==
    {new_position_after_move_piece_unchecked(pos, MovePieces[i],
                                             player_position(board, opponent(p))) :
        i \in {j \in 1..16 :
                 is_move_piece_legal_with_player_at_position(board, p, pos, MovePieces[j])}}

\* the pair of the least position, whatever its f
HeapMin_by_position(heap) ==
    CHOOSE e \in heap : \A o \in heap : e[2] <= o[2]

\* among the pairs of least f the one of the greatest position
HeapMin_greatest_position(heap) ==
    CHOOSE e \in heap : \A o \in heap :
        \/ e[1] < o[1]
        \/ (e[1] = o[1] /\ e[2] >= o[2])

\* BinaryHeap<Reverse<(K, T)>>::pop: the least (f, position) pair, the
\* derived Ord of the tuple and of PiecePosition (its index)
HeapMin(heap) ==
    CHOOSE e \in heap : \A o \in heap :
        \/ e[1] < o[1]
        \/ (e[1] = o[1] /\ e[2] <= o[2])

\* the start cell is pushed as well
RECURSIVE reconstruct_path_with_start(_, _)
reconstruct_path_with_start(came_from, current) ==
    IF current \in DOMAIN came_from
    THEN Append(reconstruct_path_with_start(came_from, came_from[current]), current)
    ELSE <<current>>

RECURSIVE reconstruct_path(_, _)
reconstruct_path(came_from, current) ==
    IF current \in DOMAIN came_from
    THEN Append(reconstruct_path(came_from, came_from[current]), current)
    ELSE <<>>

\* the insertions the for loop over the neighbours makes: (came_from,
\* g_score, open_set) after it
RECURSIVE relax(_, _, _, _, _, _)
relax(todo, current, p, came_from, g_score, heap) ==
    IF todo = {} THEN <<came_from, g_score, heap>>
    ELSE LET neighbor == CHOOSE n \in todo : TRUE
             tentative_g_score == g_score[current] + 1
         IN  IF neighbor \notin DOMAIN g_score \/ tentative_g_score < g_score[neighbor]
             THEN relax(todo \ {neighbor}, current, p,
                        (neighbor :> current) @@ came_from,
                        (neighbor :> tentative_g_score) @@ g_score,
                        heap \cup {<<tentative_g_score + heuristic(neighbor, p), neighbor>>})
             ELSE relax(todo \ {neighbor}, current, p, came_from, g_score, heap)

RECURSIVE a_star_loop(_, _, _, _, _)
a_star_loop(board, p, heap, came_from, g_score) ==
    IF heap = {} THEN None
    ELSE LET e == HeapMin(heap)
             current == e[2]
         IN  IF heuristic(current, p) = 0
             THEN Some(reconstruct_path(came_from, current))
             ELSE LET r == relax(neighbors(board, p, current), current, p,
                                 came_from, g_score, heap \ {e})
                  IN  a_star_loop(board, p, r[3], r[1], r[2])

a_star(board, p) ==
    LET start == player_position(board, p)
    IN  a_star_loop(board, p, {<<heuristic(start, p), start>>},
                    <<>>, start :> 0)

\* the vector neighbors() collects, in the order of MovePiece::iter()
neighbors_in_order(board, p, pos) ==
    LET Legal(i) == is_move_piece_legal_with_player_at_position(board, p, pos, MovePieces[i])
        legal == SelectSeq([i \in 1..16 |-> i], Legal)
    IN  [k \in 1..Len(legal) |->
            new_position_after_move_piece_unchecked(pos, MovePieces[legal[k]],
                                                    player_position(board, opponent(p)))]

\* the for loop over the neighbours from the k-th on, the open set kept as
\* the sequence of its (f, position) pairs in the order of their insertion:
\* (g_score, open_set) after it
RECURSIVE relax_in_order(_, _, _, _, _, _)
relax_in_order(todo, k, current, p, g_score, queue) ==
    IF k > Len(todo) THEN <<g_score, queue>>
    ELSE LET neighbor == todo[k]
             tentative_g_score == g_score[current] + 1
         IN  IF neighbor \notin DOMAIN g_score \/ tentative_g_score < g_score[neighbor]
             THEN relax_in_order(todo, k + 1, current, p,
                                 (neighbor :> tentative_g_score) @@ g_score,
                                 Append(queue, <<tentative_g_score + heuristic(neighbor, p),
                                                 neighbor>>))
             ELSE relax_in_order(todo, k + 1, current, p, g_score, queue)

\* the pops of the while loop: for each, the open set before it and the
\* place in it of the pair open_set.pop() returns
RECURSIVE open_set_pops_loop(_, _, _, _)
open_set_pops_loop(board, p, queue, g_score) ==
    IF queue = <<>> THEN <<>>
    ELSE LET e == HeapMin({queue[i] : i \in 1..Len(queue)})
             at == CHOOSE i \in 1..Len(queue) : queue[i] = e
             rest == [i \in 1..(Len(queue) - 1) |->
                        IF i < at THEN queue[i] ELSE queue[i + 1]]
             pop == [open_set |-> queue, popped |-> at]
         IN  IF heuristic(e[2], p) = 0 THEN <<pop>>
             ELSE LET r == relax_in_order(neighbors_in_order(board, p, e[2]), 1, e[2], p,
                                          g_score, rest)
                  IN  <<pop>> \o open_set_pops_loop(board, p, r[2], r[1])

\* a_star(board, p) with its pops recorded
open_set_pops(board, p) ==
    LET start == player_position(board, p)
    IN  open_set_pops_loop(board, p, <<(<<heuristic(start, p), start>>)>>, start :> 0)

----------------------------------------------------------------------------
(* game_logic.rs: the legality of a move *)

PlaceWall(o, wx, wy) == [type |-> "PlaceWall", orientation |-> o, x |-> wx, y |-> wy]
MovePiece(mp) == [type |-> "MovePiece", move_piece |-> mp]

\* the closure blocks_path: the wall is put on a copy of the game and the
\* pathfinder is asked for player_to_block_check
blocks_path(game, p, player_move, player_to_block_check) ==
    ~a_star(execute_move_unchecked(game, p, player_move).board, player_to_block_check).some

\* the sealing test made for the opponent only
is_move_legal_opponent_only(game, p, pos, player_move) ==
    IF player_move.type = "MovePiece"
    THEN is_move_piece_legal_with_player_at_position(game.board, p, pos, player_move.move_piece)
    ELSE /\ game.walls_left[as_index(p)] > 0
         /\ room_for_wall_placement(game.board, player_move.orientation,
                                    player_move.x, player_move.y)
         /\ ~blocks_path(game, p, player_move, opponent(p))

\* the walls the mover has left are not looked at
is_move_legal_without_wall_count(game, p, pos, player_move) ==
    IF player_move.type = "MovePiece"
    THEN is_move_piece_legal_with_player_at_position(game.board, p, pos, player_move.move_piece)
    ELSE /\ room_for_wall_placement(game.board, player_move.orientation,
                                    player_move.x, player_move.y)
         /\ ~blocks_path(game, p, player_move, p)
         /\ ~blocks_path(game, p, player_move, opponent(p))

is_move_legal_with_player_at_position(game, p, pos, player_move) ==
    IF player_move.type = "MovePiece"
    THEN is_move_piece_legal_with_player_at_position(game.board, p, pos, player_move.move_piece)
    ELSE /\ game.walls_left[as_index(p)] > 0
         /\ room_for_wall_placement(game.board, player_move.orientation,
                                    player_move.x, player_move.y)
         /\ ~blocks_path(game, p, player_move, p)
         /\ ~blocks_path(game, p, player_move, opponent(p))

is_move_legal(game, p, player_move) ==
    is_move_legal_with_player_at_position(game, p, player_position(game.board, p), player_move)

\* is_move_legal panics: the closure blocks_path is reached, after the two
\* tests in front of it, and its execute_move_unchecked panics
is_move_legal_panics(game, p, player_move) ==
    /\ player_move.type = "PlaceWall"
    /\ game.walls_left[as_index(p)] > 0
    /\ room_for_wall_placement(game.board, player_move.orientation,
                               player_move.x, player_move.y)
    /\ execute_move_unchecked_panics(game, p, player_move)

----------------------------------------------------------------------------
(* square_outline_iterator.rs *)

\* the offsets are applied with x and y exchanged: the left side first
SquareOutline_transposed(top_left_x, top_left_y, side_length) ==
    IF side_length < 1 THEN <<>>
    ELSE [n \in 1..(4 * (side_length - 1)) |->
            LET index == n - 1
                l == side_length - 1
                side_index == index \div l
                position_index == index % l
                d == CASE side_index = 0 -> <<position_index, 0>>
                       [] side_index = 1 -> <<l, position_index>>
                       [] side_index = 2 -> <<l - position_index, l>>
                       [] OTHER -> <<0, l - position_index>>
            IN  <<top_left_x + d[2], top_left_y + d[1]>>]

\* the points SquareOutlineIterator::new(top_left_x, top_left_y, side_length)
\* yields, in order
SquareOutline(top_left_x, top_left_y, side_length) ==
    IF side_length < 1 THEN <<>>
    ELSE [n \in 1..(4 * (side_length - 1)) |->
            LET index == n - 1
                l == side_length - 1
                side_index == index \div l
                position_index == index % l
                d == CASE side_index = 0 -> <<position_index, 0>>
                       [] side_index = 1 -> <<l, position_index>>
                       [] side_index = 2 -> <<l - position_index, l>>
                       [] OTHER -> <<0, l - position_index>>
            IN  <<top_left_x + d[1], top_left_y + d[2]>>]

----------------------------------------------------------------------------
(* bot.rs.  Player::A of bot.rs is the first variant of Player, index 0,   *)
(* the player data_model.rs calls White; Player::B is Black.               *)

\* isize::MIN + 1, for an isize of 32 bits; the sentinels are only negated
\* and compared
LOOSING_SCORE == -2147483647
WINNING_SCORE == -LOOSING_SCORE

NoMove == [some |-> FALSE]
SomeMove(mv) == [some |-> TRUE, move |-> mv]

Max2(a, b) == IF a >= b THEN a ELSE b
Min2(a, b) == IF a <= b THEN a ELSE b

\* the weights of the two terms of the evaluation
distance_priority == 1
wall_priority == 0

\* the evaluation taken for the player that is to move
heuristic_board_score_of_mover(game) ==
    LET opponent_distance == Len(a_star(game.board, opponent(game.player)).path)
        player_distance == Len(a_star(game.board, game.player).path)
    IN  IF opponent_distance = 0 THEN LOOSING_SCORE
        ELSE IF player_distance = 0 THEN WINNING_SCORE
        ELSE distance_priority * (opponent_distance - player_distance)
                + wall_priority * (game.walls_left[as_index(game.player)]
                                      - game.walls_left[as_index(opponent(game.player))])

\* the wall term counted
heuristic_board_score_with_walls(game) ==
    LET opponent_distance == Len(a_star(game.board, "Black").path)
        player_distance == Len(a_star(game.board, "White").path)
    IN  IF opponent_distance = 0 THEN LOOSING_SCORE
        ELSE IF player_distance = 0 THEN WINNING_SCORE
        ELSE (opponent_distance - player_distance)
                + (game.walls_left[as_index("White")] - game.walls_left[as_index("Black")])

\* the evaluation without the two early returns
heuristic_board_score_without_sentinels(game) ==
    LET opponent_distance == Len(a_star(game.board, "Black").path)
        player_distance == Len(a_star(game.board, "White").path)
    IN  distance_priority * (opponent_distance - player_distance)
            + wall_priority * (game.walls_left[as_index("White")]
                                  - game.walls_left[as_index("Black")])

\* both unwrap() calls succeed: the function is applied to games in which
\* both players have a path (see has_paths and CallBestMove)
heuristic_board_score(game) ==
    LET opponent_path == a_star(game.board, "Black")
        player_path == a_star(game.board, "White")
        opponent_distance == Len(opponent_path.path)
        player_distance == Len(player_path.path)
        player_walls_left == game.walls_left[as_index("White")]
        opponent_walls_left == game.walls_left[as_index("Black")]
        distance_score == opponent_distance - player_distance
        wall_score == player_walls_left - opponent_walls_left
    IN  IF opponent_distance = 0 THEN LOOSING_SCORE
        ELSE IF player_distance = 0 THEN WINNING_SCORE
        ELSE distance_priority * distance_score + wall_priority * wall_score

\* push_if_move_piece_is_legal
push_if_move_piece_is_legal(game, p, direction, direction_on_collision) ==
    LET move_piece == [direction |-> direction,
                       direction_on_collision |-> direction_on_collision]
    IN  IF is_move_piece_legal_with_player_at_position(
               game.board, p, player_position(game.board, p), move_piece)
        THEN <<MovePiece(move_piece)>>
        ELSE <<>>

\* the piece moves, those towards an adjacent opponent first
ordered_piece_moves(game, p) ==
    LET player_pos == player_position(game.board, p)
        opponent_pos == player_position(game.board, opponent(p))
        x_diff == X(opponent_pos) - X(player_pos)
        y_diff == Y(opponent_pos) - Y(player_pos)
        jump_direction ==
            CASE x_diff = 0 /\ y_diff = 1 -> "Down"
              [] x_diff = 0 /\ y_diff = -1 -> "Up"
              [] x_diff = 1 /\ y_diff = 0 -> "Right"
              [] x_diff = -1 /\ y_diff = 0 -> "Left"
              [] OTHER -> "None"
        push(d, dc) == push_if_move_piece_is_legal(game, p, d, dc)
        unless_jump(d) == IF d = jump_direction THEN <<>> ELSE push(d, "Up")
    IN  IF jump_direction # "None"
        THEN push(jump_direction, "Up") \o push(jump_direction, "Down")
                \o push(jump_direction, "Left") \o push(jump_direction, "Right")
                \o unless_jump("Up") \o unless_jump("Down")
                \o unless_jump("Left") \o unless_jump("Right")
        ELSE push("Up", "Up") \o push("Down", "Up") \o push("Left", "Up") \o push("Right", "Up")

\* the slots of column 0 and of row 0 count as out of bounds
slot_in_bounds_above_zero(pt) ==
    pt[1] > 0 /\ pt[2] > 0 /\ pt[1] < WALL_GRID_WIDTH /\ pt[2] < WALL_GRID_HEIGHT

slot_in_bounds(pt) ==
    pt[1] >= 0 /\ pt[2] >= 0 /\ pt[1] < WALL_GRID_WIDTH /\ pt[2] < WALL_GRID_HEIGHT

\* the wall moves pushed for the points k.. of one ring
RECURSIVE ring_wall_moves(_, _, _, _)
ring_wall_moves(game, p, points, k) ==
    IF k > Len(points) THEN <<>>
    ELSE LET pt == points[k]
             push(o) == IF /\ game.walls_left[as_index(p)] > 0
                           /\ room_for_wall_placement(game.board, o, pt[1], pt[2])
                        THEN <<PlaceWall(o, pt[1], pt[2])>>
                        ELSE <<>>
         IN  (IF slot_in_bounds(pt) THEN push("Horizontal") \o push("Vertical") ELSE <<>>)
                \o ring_wall_moves(game, p, points, k + 1)

\* the loop over the rings i, i + 1, ... around the opponent's cell, left
\* at the first ring without a point in bounds
RECURSIVE ordered_wall_moves(_, _, _)
ordered_wall_moves(game, p, i) ==
    LET origin == player_position(game.board, opponent(p))
        points == SquareOutline(X(origin) - i, Y(origin) - i, 2 * i)
        some_in_bounds == \E k \in 1..Len(points) : slot_in_bounds(points[k])
    IN  IF ~some_in_bounds THEN <<>>
        ELSE ring_wall_moves(game, p, points, 1) \o ordered_wall_moves(game, p, i + 1)

\* the rings start at the second one
moves_ordered_from_second_ring(game, p) ==
    ordered_piece_moves(game, p) \o ordered_wall_moves(game, p, 2)

moves_ordered_by_heuristic_quality(game, p) ==
    ordered_piece_moves(game, p) \o ordered_wall_moves(game, p, 1)

\* both players have a path on the board of the game
has_paths(game) ==
    a_star(game.board, "White").some /\ a_star(game.board, "Black").some

\* only the path of the player who moved is looked at
is_dead_branch_mover_only(child_game_state, p) ==
    ~a_star(child_game_state.board, p).some

\* the test that makes the loops skip a child
is_dead_branch(child_game_state, p) ==
    \/ ~a_star(child_game_state.board, p).some
    \/ ~a_star(child_game_state.board, opponent(p)).some

\* the maximizer leaves its loop at the first value that reaches alpha
max_cutoff_on_alpha(value, alpha, beta) == value >= alpha

\* if value >= beta { break; }
max_cutoff(value, alpha, beta) == value >= beta

\* the minimizer leaves its loop at the first value that does not exceed beta
min_cutoff_on_beta(value, alpha, beta) == value <= beta

\* if value <= alpha { break; }
min_cutoff(value, alpha, beta) == value <= alpha

\* the test of the maximizer in both arms
improves_as_maximizer(p, score, value) == score > value

\* if score > value (Player::A), if score < value (Player::B)
improves(p, score, value) ==
    IF p = "White" THEN score > value ELSE score < value

RECURSIVE alpha_beta(_, _, _, _, _)
RECURSIVE alpha_beta_loop(_, _, _, _, _, _, _, _, _)

\* the for loop of either arm from the k-th move on; <<value, best_move>>
alpha_beta_loop(game, depth, p, moves, k, value, alpha, beta, best_move) ==
    IF k > Len(moves) THEN <<value, best_move>>
    ELSE LET child_game_state == execute_move_unchecked(game, p, moves[k])
         IN  IF is_dead_branch(child_game_state, p)
             THEN alpha_beta_loop(game, depth, p, moves, k + 1, value, alpha, beta, best_move)
             ELSE LET score == alpha_beta(child_game_state, depth - 1, alpha, beta,
                                          opponent(p))[1]
                      new_best == IF improves(p, score, value)
                                  THEN SomeMove(moves[k]) ELSE best_move
                      new_value == IF p = "White" THEN Max2(value, score)
                                                  ELSE Min2(value, score)
                  IN  IF p = "White"
                      THEN IF max_cutoff(new_value, alpha, beta)
                           THEN <<new_value, new_best>>
                           ELSE alpha_beta_loop(game, depth, p, moves, k + 1, new_value,
                                                Max2(alpha, new_value), beta, new_best)
                      ELSE IF min_cutoff(new_value, alpha, beta)
                           THEN <<new_value, new_best>>
                           ELSE alpha_beta_loop(game, depth, p, moves, k + 1, new_value,
                                                alpha, Min2(beta, new_value), new_best)

alpha_beta(game, depth, alpha, beta, p) ==
    IF depth = 0 THEN <<heuristic_board_score(game), NoMove>>
    ELSE alpha_beta_loop(game, depth, p, moves_ordered_by_heuristic_quality(game, p), 1,
                         IF p = "White" THEN LOOSING_SCORE ELSE WINNING_SCORE,
                         alpha, beta, NoMove)

best_move_alpha_beta(game, p, depth) ==
    alpha_beta(game, depth, LOOSING_SCORE, WINNING_SCORE, p)

----------------------------------------------------------------------------
(* Input states.  A state of a game in progress is described by the walls  *)
(* standing in a window of the wall grid next to row 0, the two pieces in  *)
(* a window of cells around it, and the walls each player has left.  Every *)
(* wall had room when it was put down (room_for_wall_placement), and the   *)
(* walls on the board are exactly the ones the two players have spent:     *)
(* the part of them outside the window is a prefix of FarWalls.            *)

MaxWalls == 2

\* the window of wall slots and the window of cells
WindowSlots == (0..2) \X (0..1)
WindowCells == {PiecePosition(cx, cy) : cx \in 0..2, cy \in 0..2}

TotalWalls == 2 * INITIAL_WALLS

Wall(o, wx, wy) == [orientation |-> o, x |-> wx, y |-> wy]

WallCandidates ==
    {Wall(Orientations[o], s[1], s[2]) : o \in 1..2, s \in WindowSlots}

\* vertical walls in the five rightmost wall columns, two rows apart
FarWalls ==
    [i \in 1..TotalWalls |->
        Wall("Vertical", 7 - ((i - 1) \div 4), 2 * ((i - 1) % 4) + (((i - 1) \div 4) % 2))]

FarWallsN(n) == {FarWalls[i] : i \in 1..n}

WallsOf(ws) ==
    [wx \in 0..(WALL_GRID_WIDTH - 1) |-> [wy \in 0..(WALL_GRID_HEIGHT - 1) |->
        IF \E w \in ws : w.x = wx /\ w.y = wy
        THEN (CHOOSE w \in ws : w.x = wx /\ w.y = wy).orientation
        ELSE "None"]]

HasRoom(ws) ==
    \A w \in ws :
        room_for_wall_placement(MkBoard(WallsOf(ws \ {w}), Board_new.player_positions),
                                w.orientation, w.x, w.y)

WallSets(n) == {ws \in SUBSET WallCandidates : Cardinality(ws) <= n}

WallsOnBoard(w) ==
    Cardinality({s \in (0..(WALL_GRID_WIDTH - 1)) \X (0..(WALL_GRID_HEIGHT - 1)) :
                    w[s[1]][s[2]] # "None"})

TheBoard == MkBoard(walls, player_positions)
TheGame == MkGame(player, walls, player_positions, walls_left)

\* the game state is one of the inputs: window walls out of wss, far == the
\* number of walls outside the window, pieces on cells, walls left out of wls
InputGame(wss, fars, cells, wls) ==
    /\ \E ws \in wss, far \in fars, wl \in wls :
          /\ wl[1] + wl[2] + far + Cardinality(ws) = TotalWalls
          /\ HasRoom(ws \cup FarWallsN(far))
          /\ walls = WallsOf(ws \cup FarWallsN(far))
          /\ walls_left = [i \in 0..1 |-> wl[i + 1]]
    /\ \E a \in cells, b \in cells :
          /\ a # b
          /\ player_positions = [i \in 0..1 |-> IF i = 0 THEN a ELSE b]
    /\ player \in Players
    /\ plies = 0
    /\ op = "input"

\* White and Black have placed the window walls in turn
AlternateSplits == {<<INITIAL_WALLS - ((n + 1) \div 2), INITIAL_WALLS - (n \div 2)>> : n \in 0..TotalWalls}

----------------------------------------------------------------------------
(* The pathfinder applied to a board: a_star(&board, player).  The boards  *)
(* include the ones the legality check builds by adding a wall that seals  *)
(* a player in.                                                            *)

InitPath ==
    /\ InputGame(WallSets(MaxWalls), {0}, WindowCells, AlternateSplits)
    /\ arg = [player |-> player]
    /\ ret = None

CallAStar ==
    /\ op = "input"
    /\ op' = "a_star"
    /\ ret' = a_star(TheBoard, arg.player)
    /\ UNCHANGED <<player, walls, player_positions, walls_left, plies, arg>>

NextPath == CallAStar

SpecPath == InitPath /\ [][NextPath]_vars

\* the goal row of a player, as the game defines it
GoalRow(p) == IF p = "White" THEN PIECE_GRID_HEIGHT - 1 ELSE 0

\* reference: breadth-first distance from the frontier to the goal row over
\* the move relation of the pathfinder, -1 when the goal row is out of reach
RECURSIVE BfsDist(_, _, _, _, _)
BfsDist(board, p, seen, frontier, d) ==
    IF frontier = {} THEN -1
    ELSE IF \E c \in frontier : Y(c) = GoalRow(p) THEN d
    ELSE LET nxt == UNION {neighbors(board, p, c) : c \in frontier} \ seen
         IN  BfsDist(board, p, seen \cup nxt, nxt, d + 1)

ShortestDistance(board, p) ==
    BfsDist(board, p, {player_position(board, p)}, {player_position(board, p)}, 0)

\* C1: whenever a_star returns a path, its length is the minimum number of
\* legal piece moves (jumps over the fixed opponent included) from the
\* player's cell to the player's goal row, as a breadth-first search finds it
AStarShortest ==
    (op = "a_star" /\ ret.some) => Len(ret.path) = ShortestDistance(TheBoard, arg.player)

\* C2: a_star returns None exactly when no cell of the player's goal row can
\* be reached by legal piece moves with the opponent held fixed
AStarNoneIffUnreachable ==
    op = "a_star" => (ret.some <=> ShortestDistance(TheBoard, arg.player) # -1)

\* a sealed-in player got None
AStarNoneWitness ==
    op = "a_star" /\ ~ret.some /\ WallsOnBoard(walls) = 2

----------------------------------------------------------------------------
(* A move is offered to a game in progress: get_legal_command asks         *)
(* is_move_legal for the player to move, and execute_command plays the     *)
(* move once it was accepted.                                              *)

MaxLegalWalls == 1

LegalCells == {PiecePosition(cx, cy) : cx \in 0..1, cy \in 0..1}

\* the wall placements offered: every slot of the window and two slots past
\* the edge of the wall grid, as the move parser accepts any digit
OfferedWalls ==
    {PlaceWall(w.orientation, w.x, w.y) : w \in WallCandidates}
        \cup {PlaceWall("Horizontal", WALL_GRID_WIDTH, 0), PlaceWall("Vertical", 1, WALL_GRID_HEIGHT)}

OfferedMoves == {MovePiece(MovePieces[i]) : i \in 1..16} \cup OfferedWalls

InitLegal ==
    /\ \/ InputGame(WallSets(MaxLegalWalls), {0}, LegalCells, AlternateSplits)
       \/ InputGame({{}}, {INITIAL_WALLS}, LegalCells, {<<0, INITIAL_WALLS>>})
    /\ arg = [player |-> player]
    /\ ret = None

\* is_move_legal(game, player, &player_move)
CallIsMoveLegal ==
    /\ op = "input"
    /\ \E mv \in OfferedMoves :
          /\ arg' = [player |-> player, move |-> mv]
          /\ ret' = IF is_move_legal_panics(TheGame, player, mv)
                    THEN [panicked |-> TRUE, legal |-> FALSE]
                    ELSE [panicked |-> FALSE, legal |-> is_move_legal(TheGame, player, mv)]
    /\ op' = "is_move_legal"
    /\ UNCHANGED <<player, walls, player_positions, walls_left, plies>>

\* Command::PlayMove of an accepted move
PlayAccepted ==
    /\ op = "is_move_legal"
    /\ ret.legal
    /\ LET next_game_state == execute_move_unchecked(TheGame, arg.player, arg.move)
       IN  /\ player' = next_game_state.player
           /\ walls' = next_game_state.board.walls
           /\ player_positions' = next_game_state.board.player_positions
           /\ walls_left' = next_game_state.walls_left
    /\ plies' = plies + 1
    /\ op' = "execute_move"
    /\ UNCHANGED <<arg, ret>>

NextLegal == CallIsMoveLegal \/ PlayAccepted

SpecLegal == InitLegal /\ [][NextLegal]_vars

\* the orientation crossing o
Perpendicular(o) == IF o = "Horizontal" THEN "Vertical" ELSE "Horizontal"

InWallGrid(wx, wy) == wx \in 0..(WALL_GRID_WIDTH - 1) /\ wy \in 0..(WALL_GRID_HEIGHT - 1)

\* the slot k steps further along the length of a wall of orientation o
AlongLength(o, wx, wy, k) == IF o = "Horizontal" THEN <<wx + k, wy>> ELSE <<wx, wy + k>>

\* the five conditions of a legal wall placement
WallConditions(game, p, o, wx, wy) ==
    /\ game.walls_left[as_index(p)] >= 1
    /\ InWallGrid(wx, wy)
    /\ game.board.walls[wx][wy] # Perpendicular(o)
    /\ \A k \in {-1, 0, 1} :
          LET s == AlongLength(o, wx, wy, k)
          IN  InWallGrid(s[1], s[2]) => game.board.walls[s[1]][s[2]] # o
    /\ \A q \in Players :
          ShortestDistance([game.board EXCEPT !.walls[wx][wy] = o], q) # -1

\* C3: a wall placement is reported legal exactly when the mover has a wall
\* left, the slot is inside the wall grid, the slot does not hold the
\* perpendicular orientation, neither the slot nor its two neighbours along
\* the wall's length hold the same orientation, and with the wall added both
\* players still reach their goal rows
WallLegalIffConditions ==
    (op = "is_move_legal" /\ arg.move.type = "PlaceWall") =>
        (ret.legal <=> WallConditions(TheGame, arg.player, arg.move.orientation,
                                      arg.move.x, arg.move.y))

\* a wall with room, offered by a player who has walls, refused because it
\* seals the mover in
WallSealsMoverWitness ==
    /\ op = "is_move_legal"
    /\ arg.move.type = "PlaceWall"
    /\ ~ret.legal
    /\ walls_left[as_index(arg.player)] > 0
    /\ room_for_wall_placement(TheBoard, arg.move.orientation, arg.move.x, arg.move.y)
    /\ ShortestDistance([TheBoard EXCEPT !.walls[arg.move.x][arg.move.y] = arg.move.orientation],
                        opponent(arg.player)) # -1

\* C4: after an accepted wall placement is executed, both players have a
\* path to their goal rows, whoever placed the wall
PathsAfterLegalWall ==
    (op = "execute_move" /\ arg.move.type = "PlaceWall") =>
        \A q \in Players : a_star(TheBoard, q).some

\* a second wall was put on the board, by either player
SecondWallPlacedWitness ==
    /\ op = "execute_move"
    /\ arg.move.type = "PlaceWall"
    /\ WallsOnBoard(walls) = 2
    /\ \A q \in Players : a_star(TheBoard, q).some

\* the cell one step from cell c in direction d, as coordinates
Step(c, d) == <<X(c) + to_offset(d)[1], Y(c) + to_offset(d)[2]>>

\* a wall of orientation o in slot (sx, sy) lies on the edge between the
\* adjacent cells a and b: a Horizontal wall separates rows sy and sy + 1 in
\* columns sx and sx + 1, a Vertical wall columns sx and sx + 1 in rows sy
\* and sy + 1
WallOnEdge(o, sx, sy, a, b) ==
    IF o = "Horizontal"
    THEN a[1] = b[1] /\ a[1] \in {sx, sx + 1} /\ {a[2], b[2]} = {sy, sy + 1}
    ELSE a[2] = b[2] /\ a[2] \in {sy, sy + 1} /\ {a[1], b[1]} = {sx, sx + 1}

\* the step from cell c in direction d stays on the board and crosses no wall
EdgeLegal(board, c, d) ==
    /\ Step(c, d)[1] \in 0..(PIECE_GRID_WIDTH - 1)
    /\ Step(c, d)[2] \in 0..(PIECE_GRID_HEIGHT - 1)
    /\ \A sx \in 0..(WALL_GRID_WIDTH - 1), sy \in 0..(WALL_GRID_HEIGHT - 1) :
          board.walls[sx][sy] # "None" =>
              ~WallOnEdge(board.walls[sx][sy], sx, sy, <<X(c), Y(c)>>, Step(c, d))

\* the mover's primary step lands on the opponent
Collides(board, p, d) ==
    Step(player_position(board, p), d) =
        <<X(player_position(board, opponent(p))), Y(player_position(board, opponent(p)))>>

\* C5: a piece move is legal exactly when the primary step is edge-legal from
\* the mover's cell and, if it lands on the opponent, the secondary step is
\* edge-legal from the opponent's cell; without a collision the secondary
\* direction does not count
PieceLegalIffEdges ==
    (op = "is_move_legal" /\ arg.move.type = "MovePiece") =>
        (ret.legal <=>
            /\ EdgeLegal(TheBoard, player_position(TheBoard, arg.player),
                         arg.move.move_piece.direction)
            /\ Collides(TheBoard, arg.player, arg.move.move_piece.direction) =>
                  EdgeLegal(TheBoard, player_position(TheBoard, opponent(arg.player)),
                            arg.move.move_piece.direction_on_collision))

\* a jump refused because a wall stands behind or beside the opponent
JumpBlockedByWallWitness ==
    /\ op = "is_move_legal"
    /\ arg.move.type = "MovePiece"
    /\ ~ret.legal
    /\ Collides(TheBoard, arg.player, arg.move.move_piece.direction)
    /\ EdgeLegal(TheBoard, player_position(TheBoard, arg.player), arg.move.move_piece.direction)
    /\ EdgeLegal(MkBoard(EmptyWalls, player_positions),
                 player_position(TheBoard, opponent(arg.player)),
                 arg.move.move_piece.direction_on_collision)

----------------------------------------------------------------------------
(* A game played from the start: the driver holds the Game, gets a legal   *)
(* move for state.player and applies it (main loop, execute_command).      *)

MaxPlies == 5

\* the wall slots the players are offered, between the two pieces of the
\* position with the initial moves skipped
GameWallSlots == {<<3, 3>>, <<4, 3>>, <<4, 4>>}

GameMoves ==
    {MovePiece(MovePieces[i]) : i \in 1..16}
        \cup {PlaceWall(Orientations[o], s[1], s[2]) : o \in 1..2, s \in GameWallSlots}

\* Game::new() or Game::new_with_initial_moves_skipped() (Reset)
Init ==
    /\ \E g \in {Game_new, Game_new_with_initial_moves_skipped} :
          /\ player = g.player
          /\ walls = g.board.walls
          /\ player_positions = g.board.player_positions
          /\ walls_left = g.walls_left
    /\ plies = 0
    /\ op = "new"
    /\ arg = [player |-> player]
    /\ ret = None

\* the primary step of a piece move lands on the opponent's cell
is_collision(board, p, player_move) ==
    /\ player_move.type = "MovePiece"
    /\ new_position_after_direction_unchecked(player_position(board, p),
                                              player_move.move_piece.direction)
           = player_position(board, opponent(p))

\* one turn: a move that is_move_legal accepts for the player to move is
\* executed
PlayMove ==
    /\ plies < MaxPlies
    /\ \E mv \in GameMoves :
          /\ is_move_legal(TheGame, player, mv)
          /\ LET next_game_state == execute_move_unchecked(TheGame, player, mv)
             IN  /\ player' = next_game_state.player
                 /\ walls' = next_game_state.board.walls
                 /\ player_positions' = next_game_state.board.player_positions
                 /\ walls_left' = next_game_state.walls_left
          /\ arg' = [player |-> player, type |-> mv.type,
                     collision |-> is_collision(TheBoard, player, mv)]
    /\ plies' = plies + 1
    /\ op' = "execute_move"
    /\ UNCHANGED ret

Next == PlayMove

Spec == Init /\ [][Next]_vars

\* C6: in every state reached from the start by legal moves the two pieces
\* stand on different cells, both inside the 9x9 grid
PiecesApartOnGrid ==
    /\ player_positions[0] # player_positions[1]
    /\ \A i \in 0..1 : player_positions[i] \in 0..(PIECE_GRID_WIDTH * PIECE_GRID_HEIGHT - 1)

\* a piece has just jumped over the other one
JumpedWitness ==
    /\ op = "execute_move"
    /\ arg.type = "MovePiece"
    /\ arg.collision
    /\ player_positions[0] # player_positions[1]

----------------------------------------------------------------------------
(* The bot is asked for a move: get_bot_move(game, game.player, depth).    *)
(* The games are late ones: the players have spent all their walls, or     *)
(* Black has one left.                                                     *)

MaxDepth == 2

BotCells ==
    {PiecePosition(0, 0), PiecePosition(1, 0), PiecePosition(1, 1), PiecePosition(0, 2),
     PiecePosition(2, 1)}

\* no piece stands on its goal row yet
in_progress(game) ==
    /\ heuristic(player_position(game.board, "White"), "White") # 0
    /\ heuristic(player_position(game.board, "Black"), "Black") # 0

BotWallSets ==
    {{}, {Wall("Horizontal", 1, 0)}, {Wall("Vertical", 1, 0)}, {Wall("Horizontal", 0, 1)}}

\* the games in which Black has a wall left
LastWallCells == {PiecePosition(0, 0), PiecePosition(1, 1)}

InitBot ==
    /\ \/ InputGame(BotWallSets, {TotalWalls - 1, TotalWalls}, BotCells, {<<0, 0>>})
       \/ InputGame({{Wall("Vertical", 1, 0)}}, {TotalWalls - 2}, LastWallCells,
                    {<<0, 1>>})
    /\ in_progress(TheGame)
    /\ has_paths(TheGame)
    /\ arg = [player |-> player]
    /\ ret = None

\* best_move_alpha_beta(game, player, depth), as get_bot_move calls it.  At
\* depth 0 the evaluation unwraps both paths: it panics on a game in which a
\* player has none.
CallBestMove ==
    /\ op = "input"
    /\ \E depth \in 0..MaxDepth :
          /\ arg' = [player |-> player, depth |-> depth]
          /\ ret' = IF depth = 0 /\ ~has_paths(TheGame)
                    THEN [panicked |-> TRUE]
                    ELSE LET r == best_move_alpha_beta(TheGame, player, depth)
                         IN  [panicked |-> FALSE, score |-> r[1], best_move |-> r[2]]
    /\ op' = "best_move"
    /\ UNCHANGED <<player, walls, player_positions, walls_left, plies>>

NextBot == CallBestMove

SpecBot == InitBot /\ [][NextBot]_vars

SetMax(S) == CHOOSE m \in S : \A o \in S : m >= o
SetMin(S) == CHOOSE m \in S : \A o \in S : m <= o

\* reference: the minimax value without pruning, over the same moves, with
\* the same dead children left out, the same evaluation at depth 0 and White
\* maximizing
RECURSIVE Minimax(_, _, _)
Minimax(game, depth, p) ==
    IF depth = 0 THEN heuristic_board_score(game)
    ELSE LET moves == moves_ordered_by_heuristic_quality(game, p)
             children == {execute_move_unchecked(game, p, moves[k]) : k \in 1..Len(moves)}
             scores == {Minimax(c, depth - 1, opponent(p)) :
                           c \in {ch \in children : ~is_dead_branch(ch, p)}}
         IN  IF p = "White" THEN SetMax(scores \cup {LOOSING_SCORE})
                            ELSE SetMin(scores \cup {WINNING_SCORE})

\* C7: the score best_move_alpha_beta returns is the score of the minimax
\* without pruning
AlphaBetaEqualsMinimax ==
    (op = "best_move" /\ ~ret.panicked) =>
        ret.score = Minimax(TheGame, arg.depth, arg.player)

\* the search went two plies deep over children of different scores
DeepSearchWitness ==
    /\ op = "best_move"
    /\ arg.depth = 2
    /\ ret.best_move.some
    /\ ret.score # Minimax(TheGame, 1, arg.player)

\* some move that is_move_legal accepts leads to a child in which both
\* players have a path
AllMoves ==
    {MovePiece(MovePieces[i]) : i \in 1..16}
        \cup {PlaceWall(Orientations[o], wx, wy) :
                 o \in 1..2, wx \in 0..(WALL_GRID_WIDTH - 1), wy \in 0..(WALL_GRID_HEIGHT - 1)}

HasViableMove(game, p) ==
    \E mv \in AllMoves :
        /\ is_move_legal(game, p, mv)
        /\ \A q \in Players :
              ShortestDistance(execute_move_unchecked(game, p, mv).board, q) # -1

\* C8: best_move_alpha_beta returns a move exactly when depth > 0 and some
\* legal move of the player leads to a child in which both players have a
\* path
MoveIffViable ==
    (op = "best_move" /\ ~ret.panicked) =>
        (ret.best_move.some <=> (arg.depth > 0 /\ HasViableMove(TheGame, arg.player)))

PathLength(q) == Len(a_star(TheBoard, q).path)

IsLeaf == op = "best_move" /\ ~ret.panicked /\ arg.depth = 0

NoZeroPath == PathLength("White") # 0 /\ PathLength("Black") # 0

\* C9 as stated: at a depth-0 leaf without a path of length 0 the evaluation
\* is opponent_path_length - player_path_length + player_walls_left -
\* opponent_walls_left (player: White, the maximizer)
LeafScoreCountsWalls ==
    (IsLeaf /\ NoZeroPath) =>
        ret.score = PathLength("Black") - PathLength("White") + walls_left[0] - walls_left[1]

\* C9 as amended: the evaluation is opponent_path_length -
\* player_path_length; the walls left do not enter it
LeafScoreIsDistanceDifference ==
    (IsLeaf /\ NoZeroPath) => ret.score = PathLength("Black") - PathLength("White")

\* a leaf where the two players have different numbers of walls left
UnequalWallsLeafWitness ==
    IsLeaf /\ NoZeroPath /\ walls_left[0] # walls_left[1]

\* C10 as stated: the evaluation is taken for the player to move, whose
\* path length and walls are the 'player' terms (with or without the wall
\* term, which is the matter of C9)
LeafScoreOfMover ==
    (IsLeaf /\ NoZeroPath) =>
        LET mover == arg.player
            d == PathLength(opponent(mover)) - PathLength(mover)
            w == walls_left[as_index(mover)] - walls_left[as_index(opponent(mover))]
        IN  ret.score \in {d, d + w}

\* C10 as amended: the evaluation is taken for White whoever is to move; with
\* Black to move it is Black's path length minus White's, the mover's minus
\* the other player's
LeafScoreOfWhite ==
    (IsLeaf /\ NoZeroPath /\ arg.player = "Black") =>
        ret.score = PathLength(arg.player) - PathLength(opponent(arg.player))

\* a leaf with Black to move and paths of different lengths
BlackLeafWitness ==
    IsLeaf /\ NoZeroPath /\ arg.player = "Black" /\ PathLength("White") # PathLength("Black")

----------------------------------------------------------------------------
(* The evaluation at a leaf of the search: alpha_beta at depth 0.  The     *)
(* main loop does not stop a game when a piece reaches its goal row, so    *)
(* the games evaluated include finished ones.                              *)

\* cells next to row 0 and cells of row 8
LeafCells ==
    {PiecePosition(0, 0), PiecePosition(1, 0), PiecePosition(0, 1), PiecePosition(1, 1),
     PiecePosition(0, PIECE_GRID_HEIGHT - 1), PiecePosition(1, PIECE_GRID_HEIGHT - 1)}

InitLeaf ==
    /\ InputGame(WallSets(MaxLegalWalls), {0}, LeafCells, AlternateSplits)
    /\ has_paths(TheGame)
    /\ arg = [player |-> player]
    /\ ret = None

\* alpha_beta(game, 0, alpha, beta, player)
CallLeaf ==
    /\ op = "input"
    /\ op' = "leaf"
    /\ ret' = [score |-> alpha_beta(TheGame, 0, LOOSING_SCORE, WINNING_SCORE, player)[1]]
    /\ UNCHANGED <<player, walls, player_positions, walls_left, plies, arg>>

\* the evaluation, or the pathfinder alone
NextLeaf == CallLeaf \/ CallAStar

SpecLeaf == InitLeaf /\ [][NextLeaf]_vars

OnGoalRow(p) == Y(player_position(TheBoard, p)) = GoalRow(p)

\* C11: at a depth-0 leaf where exactly one player stands on its goal row
\* (its shortest path has length 0) the evaluation is a bare sentinel,
\* WINNING_SCORE when it is White (player A) and LOOSING_SCORE when it is
\* Black (player B); WINNING_SCORE is the negation of LOOSING_SCORE, and an
\* evaluation of a leaf where nobody stands on its goal row lies strictly
\* between the two
LeafSentinels ==
    op = "leaf" =>
        /\ (OnGoalRow("White") /\ ~OnGoalRow("Black")) => ret.score = WINNING_SCORE
        /\ (OnGoalRow("Black") /\ ~OnGoalRow("White")) => ret.score = LOOSING_SCORE
        /\ WINNING_SCORE + LOOSING_SCORE = 0
        /\ (~OnGoalRow("White") /\ ~OnGoalRow("Black")) =>
              (LOOSING_SCORE < ret.score /\ ret.score < WINNING_SCORE)

\* White stands on row 8, Black is not on row 0, and the players have
\* different numbers of walls left
WhiteWonLeafWitness ==
    /\ op = "leaf"
    /\ OnGoalRow("White")
    /\ ~OnGoalRow("Black")
    /\ walls_left[0] # walls_left[1]
    /\ ret.score = WINNING_SCORE

----------------------------------------------------------------------------
(* The move list of one node of the search:                                *)
(* moves_ordered_by_heuristic_quality(game, player).                       *)

OrderCells == {PiecePosition(0, 0), PiecePosition(1, 0), PiecePosition(0, 1)}

\* at most one wall in the window
OrderWallSets == {{}} \cup {{w} : w \in WallCandidates}

InitOrder ==
    /\ \/ InputGame(OrderWallSets, {0}, OrderCells, AlternateSplits)
       \/ InputGame({{}}, {INITIAL_WALLS}, OrderCells, {<<0, INITIAL_WALLS>>})
    /\ arg = [player |-> player]
    /\ ret = None

CallMovesOrdered ==
    /\ op = "input"
    /\ op' = "moves"
    /\ ret' = [moves |-> moves_ordered_by_heuristic_quality(TheGame, player)]
    /\ UNCHANGED <<player, walls, player_positions, walls_left, plies, arg>>

NextOrder == CallMovesOrdered

SpecOrder == InitOrder /\ [][NextOrder]_vars

LegalMoves(game, p) == {mv \in AllMoves : is_move_legal(game, p, mv)}

NoDuplicates(list) == \A i, j \in DOMAIN list : i # j => list[i] # list[j]

\* C12 as stated: the list is exactly the set of moves is_move_legal accepts,
\* each once
ListIsLegalSet ==
    op = "moves" =>
        /\ SeqRange(ret.moves) = LegalMoves(TheGame, arg.player)
        /\ NoDuplicates(ret.moves)

\* the wall placement is refused only for sealing a player in: the mover
\* has a wall, the slot is in the grid and has room
OnlySeals(game, p, mv) ==
    /\ mv.type = "PlaceWall"
    /\ game.walls_left[as_index(p)] > 0
    /\ InWallGrid(mv.x, mv.y)
    /\ room_for_wall_placement(game.board, mv.orientation, mv.x, mv.y)
    /\ \E q \in Players : ShortestDistance(execute_move_unchecked(game, p, mv).board, q) = -1

\* C12 as amended: no move appears twice; every move is_move_legal accepts
\* appears, a piece move that meets no opponent under one of its four
\* equivalent encodings; every entry is a legal move or a wall placement
\* that is illegal only because it seals a player in
ListCoversLegalMoves ==
    op = "moves" =>
        /\ NoDuplicates(ret.moves)
        /\ \A mv \in LegalMoves(TheGame, arg.player) :
              \E m \in SeqRange(ret.moves) :
                  execute_move_unchecked(TheGame, arg.player, m)
                      = execute_move_unchecked(TheGame, arg.player, mv)
        /\ \A m \in SeqRange(ret.moves) :
              is_move_legal(TheGame, arg.player, m) \/ OnlySeals(TheGame, arg.player, m)

\* the list holds a jump and a wall that seals a player in
SealingWallListedWitness ==
    /\ op = "moves"
    /\ \E m \in SeqRange(ret.moves) : is_collision(TheBoard, arg.player, m)
    /\ \E m \in SeqRange(ret.moves) : OnlySeals(TheGame, arg.player, m)

----------------------------------------------------------------------------
(* The walls a player has left, over the steps of SpecLegal.               *)

\* C13: a player's walls_left never increases and never goes below 0; the
\* execution of a move takes exactly 1 from the mover's count when the move
\* places a wall and nothing otherwise, and leaves the other player's count
\* alone; a wall placement asked for by a player with 0 walls left is
\* reported illegal
WallsLeftOnlySpent ==
    [][/\ \A i \in 0..1 : walls_left'[i] >= 0 /\ walls_left'[i] <= walls_left[i]
       /\ op' = "execute_move" =>
             LET i == as_index(arg.player)
             IN  /\ walls_left'[i] = walls_left[i]
                                       - (IF arg.move.type = "PlaceWall" THEN 1 ELSE 0)
                 /\ walls_left'[1 - i] = walls_left[1 - i]
       /\ op' = "is_move_legal" =>
             /\ walls_left' = walls_left
             /\ (arg'.move.type = "PlaceWall" /\ walls_left[as_index(arg'.player)] = 0)
                    => ~ret'.legal]_vars

\* a player without walls asked for a wall that has room and seals nobody
WallRefusedForCountWitness ==
    /\ op = "is_move_legal"
    /\ arg.move.type = "PlaceWall"
    /\ walls_left[as_index(arg.player)] = 0
    /\ ~ret.legal
    /\ room_for_wall_placement(TheBoard, arg.move.orientation, arg.move.x, arg.move.y)
    /\ \A q \in Players :
          ShortestDistance(execute_move_unchecked(TheGame, arg.player, arg.move).board, q) # -1

----------------------------------------------------------------------------
(* Walls placed in turn from the start of a game, on slots in the corners  *)
(* and along the edges of the wall grid.                                   *)

MaxWallPlies == 3

EdgeWallSlots ==
    {<<0, 0>>, <<1, 0>>, <<WALL_GRID_WIDTH - 2, 0>>, <<WALL_GRID_WIDTH - 1, 0>>,
     <<WALL_GRID_WIDTH - 1, WALL_GRID_HEIGHT - 2>>,
     <<WALL_GRID_WIDTH - 1, WALL_GRID_HEIGHT - 1>>}

EdgeWallMoves ==
    {PlaceWall(Orientations[o], s[1], s[2]) : o \in 1..2, s \in EdgeWallSlots}

InitWalls ==
    /\ player = Game_new.player
    /\ walls = Game_new.board.walls
    /\ player_positions = Game_new.board.player_positions
    /\ walls_left = Game_new.walls_left
    /\ plies = 0
    /\ op = "new"
    /\ arg = [player |-> player]
    /\ ret = None

\* one turn in which the player to move places a wall is_move_legal accepts
PlayWall ==
    /\ plies < MaxWallPlies
    /\ \E mv \in EdgeWallMoves :
          /\ is_move_legal(TheGame, player, mv)
          /\ LET next_game_state == execute_move_unchecked(TheGame, player, mv)
             IN  /\ player' = next_game_state.player
                 /\ walls' = next_game_state.board.walls
                 /\ player_positions' = next_game_state.board.player_positions
                 /\ walls_left' = next_game_state.walls_left
          /\ arg' = [player |-> player, move |-> mv]
    /\ plies' = plies + 1
    /\ op' = "execute_move"
    /\ UNCHANGED ret

\* a_star(&game.board, p) on the game of Game::new(), for either player
AskPath ==
    /\ op = "new"
    /\ TheGame = Game_new
    /\ \E p \in Players :
          /\ arg' = [player |-> p]
          /\ ret' = a_star(TheBoard, p)
    /\ op' = "a_star"
    /\ UNCHANGED <<player, walls, player_positions, walls_left, plies>>

NextWalls == PlayWall \/ AskPath

SpecWalls == InitWalls /\ [][NextWalls]_vars

AllSlots == (0..(WALL_GRID_WIDTH - 1)) \X (0..(WALL_GRID_HEIGHT - 1))

\* C14: a wall placement into a slot that holds a wall, of either
\* orientation, is illegal; a step of the game leaves every filled slot as
\* it is
FilledSlotsKept ==
    /\ [](\A mv \in EdgeWallMoves :
             walls[mv.x][mv.y] # "None" => ~is_move_legal(TheGame, player, mv))
    /\ [][\A s \in AllSlots :
             walls[s[1]][s[2]] # "None" => walls'[s[1]][s[2]] = walls[s[1]][s[2]]]_vars

\* a wall was placed while an earlier one stands
WallKeptWitness ==
    /\ op = "execute_move"
    /\ WallsOnBoard(walls) = 2
    /\ \E s \in EdgeWallSlots : walls[s[1]][s[2]] = "Vertical"
    /\ \E s \in EdgeWallSlots : walls[s[1]][s[2]] = "Horizontal"

\* C15: no two walls of the same orientation overlap: there are no
\* Horizontal walls in slots (x, y) and (x + 1, y) and no Vertical walls in
\* slots (x, y) and (x, y + 1)
NoOverlappingWalls ==
    \A s \in AllSlots :
        /\ s[1] + 1 < WALL_GRID_WIDTH =>
              ~(walls[s[1]][s[2]] = "Horizontal" /\ walls[s[1] + 1][s[2]] = "Horizontal")
        /\ s[2] + 1 < WALL_GRID_HEIGHT =>
              ~(walls[s[1]][s[2]] = "Vertical" /\ walls[s[1]][s[2] + 1] = "Vertical")

\* walls stand in the last column and in the next to last one, in the same
\* row and of different orientations, and a third wall was placed
EdgeNeighboursWitness ==
    /\ op = "execute_move"
    /\ plies = 3
    /\ walls[WALL_GRID_WIDTH - 1][0] = "Horizontal"
    /\ walls[WALL_GRID_WIDTH - 2][0] = "Vertical"

----------------------------------------------------------------------------
(* The turn, over the games of Spec.                                       *)

\* C16: execute_move_unchecked(game, p, move) leaves game.player =
\* opponent(p) for either player p and for wall placements and piece moves
\* alike; in a game where each turn executes one move for the state's
\* player to move, the mover is White on the even plies and Black on the odd
\* ones, and each move hands the turn to the other player
TurnAlternates ==
    /\ [](/\ \A p \in Players, mv \in GameMoves :
               execute_move_unchecked(TheGame, p, mv).player = opponent(p)
          /\ player = IF plies % 2 = 0 THEN "White" ELSE "Black")
    /\ [][arg'.player = player /\ player' = opponent(player)]_vars

\* Black has placed a wall on the fourth ply and White is to move
BlackPlacedWallWitness ==
    /\ op = "execute_move"
    /\ plies = 4
    /\ arg.type = "PlaceWall"
    /\ arg.player = "Black"
    /\ player = "White"

----------------------------------------------------------------------------
(* The legality query, over the steps of SpecLegal.                        *)

\* C17: is_move_legal returns a boolean without panicking for every move
\* offered, wall placements outside the wall grid and placements by a player
\* without walls included, and leaves the positions, the walls, the wall
\* counts and the turn as they were
QueryReturnsAndKeepsState ==
    [][op' = "is_move_legal" =>
          /\ ~ret'.panicked
          /\ ret'.legal \in BOOLEAN
          /\ UNCHANGED <<player, walls, player_positions, walls_left>>]_vars

\* a player with walls left asked for a slot outside the wall grid and was
\* refused
OutsideGridRefusedWitness ==
    /\ op = "is_move_legal"
    /\ arg.move.type = "PlaceWall"
    /\ ~InWallGrid(arg.move.x, arg.move.y)
    /\ walls_left[as_index(arg.player)] > 0
    /\ ~ret.panicked
    /\ ~ret.legal

----------------------------------------------------------------------------
(* The search asked for a move at the start of a game, before the opening  *)
(* moves are played.                                                       *)

OpeningPlies == 2

\* best_move_alpha_beta(&game, p, 1) on the game of Game::new(), for either
\* player
AskBot ==
    /\ op = "new"
    /\ TheGame = Game_new
    /\ \E p \in Players :
          /\ arg' = [player |-> p, depth |-> 1]
          /\ ret' \in {[score |-> r[1], best_move |-> r[2]] :
                        r \in {best_move_alpha_beta(TheGame, p, 1)}}
    /\ op' = "bot_move"
    /\ UNCHANGED <<player, walls, player_positions, walls_left, plies>>

OpeningMove == plies < OpeningPlies /\ PlayMove

NextStart == AskBot \/ OpeningMove

SpecStart == Init /\ [][NextStart]_vars

\* C18: on the position of Game::new(), best_move_alpha_beta at depth 1
\* returns a move, for White and for Black as the player to move
MoveAtStart ==
    (op = "bot_move" /\ TheGame = Game_new) => ret.best_move.some

\* the search was asked for Black on the position of Game::new() and
\* returned a move with a score between the sentinels
BlackAskedAtStartWitness ==
    /\ op = "bot_move"
    /\ TheGame = Game_new
    /\ arg.player = "Black"
    /\ ret.best_move.some
    /\ ret.score > LOOSING_SCORE
    /\ ret.score < WINNING_SCORE

----------------------------------------------------------------------------
(* The pathfinder for a player on its goal row (SpecLeaf) and on the board *)
(* of Board::new() (SpecWalls).                                            *)

\* C19: for a player that stands on a cell of its goal row a_star returns a
\* path, and the path is empty
PathOnGoalRowEmpty ==
    (op = "a_star" /\ OnGoalRow(arg.player)) => (ret.some /\ Len(ret.path) = 0)

\* White stands on row 8 of a board with a wall and got the empty path
WhiteOnGoalRowWitness ==
    /\ op = "a_star"
    /\ arg.player = "White"
    /\ OnGoalRow("White")
    /\ WallsOnBoard(walls) = 1
    /\ ret = Some(<<>>)

StartPathAsked == op = "a_star" /\ TheGame = Game_new /\ arg.player = "White"

\* C20 as stated: on the board without walls, for the player at (4,0) whose
\* goal row is 8, a_star returns (4,1), (4,2), ..., (4,8), and the path has
\* length 9
StraightPathOfNine ==
    StartPathAsked =>
        /\ ret.some
        /\ ret.path = [i \in 1..(PIECE_GRID_HEIGHT - 1) |-> PiecePosition(4, i)]
        /\ Len(ret.path) = 9

\* C20 as amended: on the board of Board::new(), where the opponent stands
\* on (4,8), a_star returns (4,1), ..., (4,7), (3,8) for the player at
\* (4,0): the last step passes the opponent diagonally; the path has
\* length 8
StartPathOfEight ==
    StartPathAsked =>
        /\ ret.some
        /\ ret.path = [i \in 1..(PIECE_GRID_HEIGHT - 1) |->
                          IF i < PIECE_GRID_HEIGHT - 1 THEN PiecePosition(4, i)
                                                      ELSE PiecePosition(3, i)]
        /\ Len(ret.path) = 8

\* the path of the player at (4,0) on the board of Board::new() was asked
\* for and ends on row 8
StartPathWitness ==
    /\ StartPathAsked
    /\ player_position(TheBoard, "White") = PiecePosition(4, 0)
    /\ WallsOnBoard(walls) = 0
    /\ ret.some
    /\ Y(ret.path[Len(ret.path)]) = GoalRow("White")

----------------------------------------------------------------------------
(* The pathfinder after the first move of a game, a wall placed by White   *)
(* in the middle columns.                                                  *)

DetourWallMoves ==
    {PlaceWall(Orientations[o], wx, wy) :
        o \in 1..2, wx \in 2..5, wy \in 0..(WALL_GRID_HEIGHT - 1)}

\* the first turn of the game: a wall is_move_legal accepts is placed
FirstWall ==
    /\ op = "new"
    /\ \E mv \in DetourWallMoves :
          /\ is_move_legal(TheGame, player, mv)
          /\ LET next_game_state == execute_move_unchecked(TheGame, player, mv)
             IN  /\ player' = next_game_state.player
                 /\ walls' = next_game_state.board.walls
                 /\ player_positions' = next_game_state.board.player_positions
                 /\ walls_left' = next_game_state.walls_left
          /\ arg' = [player |-> player, move |-> mv]
    /\ plies' = plies + 1
    /\ op' = "execute_move"
    /\ UNCHANGED ret

\* a_star(&game.board, p) on the board with the wall, for either player
PathAfterWall ==
    /\ op = "execute_move"
    /\ \E p \in Players :
          /\ arg' = [player |-> p]
          /\ ret' = a_star(TheBoard, p)
    /\ op' = "a_star"
    /\ UNCHANGED <<player, walls, player_positions, walls_left, plies>>

\* the same call with the pops of its open set looked at
PopsAfterWall ==
    /\ op = "execute_move"
    /\ \E p \in Players :
          /\ arg' = [player |-> p]
          /\ ret' = [pops |-> open_set_pops(TheBoard, p)]
    /\ op' = "open_set"
    /\ UNCHANGED <<player, walls, player_positions, walls_left, plies>>

NextDetour == FirstWall \/ PathAfterWall \/ PopsAfterWall

SpecDetour == InitWalls /\ [][NextDetour]_vars

\* C21: with one Horizontal wall across column 4 (slot (3,y) or (4,y)) on
\* the board of Board::new(), the path of the player at (4,0) has length 9,
\* one more than without the wall: it goes straight down column 4 to the
\* wall, makes one step sideways into the free neighbour column and goes
\* straight down that column to row 8; for the wall in slot (3,2) it is
\* (4,1),(4,2),(5,2),(5,3),(5,4),(5,5),(5,6),(5,7),(5,8)
DetourByOneStep ==
    \A wx \in {3, 4}, wy \in 0..(WALL_GRID_HEIGHT - 1) :
        (op = "a_star" /\ arg.player = "White" /\ walls[wx][wy] = "Horizontal") =>
            LET side == IF wx = 3 THEN 5 ELSE 3
            IN  /\ ret.some
                /\ Len(ret.path) = 9
                /\ ret.path = [i \in 1..PIECE_GRID_HEIGHT |->
                                  IF i <= wy THEN PiecePosition(4, i)
                                             ELSE PiecePosition(side, i - 1)]

\* the wall stands in slot (3,2) and the path steps from (4,2) to (5,2)
SingleWallWitness ==
    /\ op = "a_star"
    /\ arg.player = "White"
    /\ walls[3][2] = "Horizontal"
    /\ WallsOnBoard(walls) = 1
    /\ ret.some
    /\ ret.path[2] = PiecePosition(4, 2)
    /\ ret.path[3] = PiecePosition(5, 2)

----------------------------------------------------------------------------
(* The search on boards with a pocket in the corner (0,8): row 8 can be    *)
(* entered from row 7 in column 0 only, and a piece on (0,8) closes the    *)
(* way when the wall right of the corner stands.                           *)

PocketRow ==
    {Wall("Horizontal", 1, 7), Wall("Horizontal", 3, 7), Wall("Horizontal", 5, 7),
     Wall("Horizontal", 7, 7)}

PocketWallSets == {PocketRow, PocketRow \cup {Wall("Vertical", 0, 7)}}

PocketCells ==
    {PiecePosition(0, 6), PiecePosition(1, 6), PiecePosition(0, 7), PiecePosition(1, 7),
     PiecePosition(0, 8)}

SkipDepths == {0, 1, 2}

\* cells one step from either goal row, in the two leftmost columns
RaceCells ==
    {PiecePosition(0, 1), PiecePosition(1, 1), PiecePosition(0, 7), PiecePosition(1, 7)}

InitSkip ==
    /\ \/ InputGame(PocketWallSets, {TotalWalls - 5, TotalWalls - 4}, PocketCells,
                    {<<0, 0>>})
       \/ InputGame({{}}, {TotalWalls}, RaceCells, {<<0, 0>>})
    /\ in_progress(TheGame)
    /\ has_paths(TheGame)
    /\ arg = [player |-> player]
    /\ ret = None

\* alpha_beta(game, depth, LOOSING_SCORE, WINNING_SCORE, player)
CallAlphaBeta ==
    /\ op = "input"
    /\ \E depth \in SkipDepths :
          /\ arg' = [player |-> player, depth |-> depth]
          /\ ret' = LET r == alpha_beta(TheGame, depth, LOOSING_SCORE, WINNING_SCORE, player)
                    IN  [score |-> r[1], best_move |-> r[2]]
    /\ op' = "alpha_beta"
    /\ UNCHANGED <<player, walls, player_positions, walls_left, plies>>

NextSkip == CallAlphaBeta

SpecSkip == InitSkip /\ [][NextSkip]_vars

\* both players can reach their goal rows by legal piece moves
BothCanReach(game) ==
    /\ ShortestDistance(game.board, "White") # -1
    /\ ShortestDistance(game.board, "Black") # -1

\* the candidate moves whose child state leaves both players a route
LiveMoves(game, p) ==
    LET Live(mv) == BothCanReach(execute_move_unchecked(game, p, mv))
    IN  SelectSeq(moves_ordered_by_heuristic_quality(game, p), Live)

\* C22: the loop of alpha_beta recurses into the children in which both
\* players can reach their goal rows and into no others, and a skipped
\* child leaves value, alpha, beta and best move alone: the search returns
\* what the same loop returns on the candidate list without the moves
\* whose child leaves a player without a route
DeadBranchesSkipped ==
    (op = "alpha_beta" /\ arg.depth > 0) =>
        LET r == alpha_beta_loop(TheGame, arg.depth, arg.player,
                                 LiveMoves(TheGame, arg.player), 1,
                                 IF arg.player = "White" THEN LOOSING_SCORE
                                                         ELSE WINNING_SCORE,
                                 LOOSING_SCORE, WINNING_SCORE, NoMove)
        IN  ret = [score |-> r[1], best_move |-> r[2]]

\* Black stands on (0,7) in the closed pocket and is to move: the step down
\* to (0,8) is a candidate and leaves White without a route
DeadChildWitness ==
    /\ op = "alpha_beta"
    /\ arg.depth = 2
    /\ arg.player = "Black"
    /\ player_positions[1] = PiecePosition(0, 7)
    /\ \E k \in 1..Len(moves_ordered_by_heuristic_quality(TheGame, "Black")) :
          LET child == execute_move_unchecked(TheGame, "Black",
                           moves_ordered_by_heuristic_quality(TheGame, "Black")[k])
          IN  /\ child.board.player_positions[1] = PiecePosition(0, 8)
              /\ ~BothCanReach(child)
    /\ ret.best_move.some

----------------------------------------------------------------------------
\* C23: the heuristic (rows left to the goal row) is admissible and
\* consistent for the moves the pathfinder searches: at the cell the search
\* starts from it is never more than the least number of legal piece moves
\* to the goal row, and no legal piece move, a jump included, lowers it by
\* more than 1
HeuristicAdmissibleConsistent ==
    op = "a_star" =>
        LET p == arg.player
            pos == player_position(TheBoard, p)
        IN  /\ ShortestDistance(TheBoard, p) # -1 =>
                  heuristic(pos, p) <= ShortestDistance(TheBoard, p)
            /\ \A n \in neighbors(TheBoard, p, pos) :
                  heuristic(pos, p) - heuristic(n, p) <= 1

----------------------------------------------------------------------------
(* SquareOutlineIterator::new(x0, y0, L) collected into a vector.          *)

MaxSide == 4
OutlineCorners == (-2..4) \X (-2..4)

InitOutline ==
    /\ player = Game_new.player
    /\ walls = Game_new.board.walls
    /\ player_positions = Game_new.board.player_positions
    /\ walls_left = Game_new.walls_left
    /\ plies = 0
    /\ op = "input"
    /\ \E c \in OutlineCorners, side_length \in 0..MaxSide :
          arg = [top_left_x |-> c[1], top_left_y |-> c[2], side_length |-> side_length]
    /\ ret = None

\* SquareOutlineIterator::new(top_left_x, top_left_y, side_length).collect()
CollectOutline ==
    /\ op = "input"
    /\ ret' = [points |-> SquareOutline(arg.top_left_x, arg.top_left_y, arg.side_length)]
    /\ op' = "outline"
    /\ UNCHANGED <<player, walls, player_positions, walls_left, plies, arg>>

NextOutline == CollectOutline

SpecOutline == InitOutline /\ [][NextOutline]_vars

\* the points on the border of the L-by-L point square with top-left (x0,y0)
Perimeter(x0, y0, L) ==
    {<<px, py>> \in (x0..(x0 + L - 1)) \X (y0..(y0 + L - 1)) :
        px = x0 \/ px = x0 + L - 1 \/ py = y0 \/ py = y0 + L - 1}

\* the step of a clockwise walk that leaves the n-th point of the outline:
\* right along the top, down the right side, left along the bottom, up
ClockwiseStep(n, L) ==
    CASE n <= L - 1 -> <<1, 0>>
      [] n > L - 1 /\ n <= 2 * (L - 1) -> <<0, 1>>
      [] n > 2 * (L - 1) /\ n <= 3 * (L - 1) -> <<-1, 0>>
      [] OTHER -> <<0, -1>>

\* C25: for L >= 2 the iterator yields the 4*(L-1) perimeter points of the
\* L-by-L point square with top-left corner (x0,y0), each once, clockwise
\* from the top-left corner (top side left to right, right side downwards,
\* bottom side right to left, left side upwards); for L <= 1 it yields
\* nothing
OutlineIsClockwisePerimeter ==
    op = "outline" =>
        LET x0 == arg.top_left_x
            y0 == arg.top_left_y
            L == arg.side_length
            pts == ret.points
        IN  IF L <= 1 THEN pts = <<>>
            ELSE /\ Len(pts) = 4 * (L - 1)
                 /\ {pts[n] : n \in 1..Len(pts)} = Perimeter(x0, y0, L)
                 /\ \A m, n \in 1..Len(pts) : m # n => pts[m] # pts[n]
                 /\ pts[1] = <<x0, y0>>
                 /\ \A n \in 1..Len(pts) :
                       LET nxt == pts[IF n = Len(pts) THEN 1 ELSE n + 1]
                       IN  <<nxt[1] - pts[n][1], nxt[2] - pts[n][2]>> = ClockwiseStep(n, L)

\* the 3-by-3 square at (4,2): eight points, the third the top-right corner
OutlineOfThreeWitness ==
    /\ op = "outline"
    /\ arg = [top_left_x |-> 4, top_left_y |-> 2, side_length |-> 3]
    /\ Len(ret.points) = 8
    /\ ret.points[3] = <<6, 2>>
    /\ ret.points[8] = <<4, 3>>

----------------------------------------------------------------------------
\* C26: a move best_move_alpha_beta returns is accepted by is_move_legal
\* for the player in the state searched, and it attains the score returned
\* with it: the minimax value without pruning, at depth - 1 and with the
\* opponent to move, of the state the move leads to equals that score
ReturnedMoveAttainsScore ==
    (op = "best_move" /\ ~ret.panicked /\ ret.best_move.some) =>
        /\ is_move_legal(TheGame, arg.player, ret.best_move.move)
        /\ Minimax(execute_move_unchecked(TheGame, arg.player, ret.best_move.move),
                   arg.depth - 1, opponent(arg.player)) = ret.score

\* a search two plies deep returned a move whose score is no sentinel
MoveWithScoreWitness ==
    /\ op = "best_move"
    /\ ~ret.panicked
    /\ arg.depth = 2
    /\ ret.best_move.some
    /\ ret.score # LOOSING_SCORE
    /\ ret.score # WINNING_SCORE

----------------------------------------------------------------------------
\* some legal piece move puts p on its goal row
CanStepOntoGoalRow(game, p) ==
    \E i \in 1..16 :
        /\ is_move_legal(game, p, MovePiece(MovePieces[i]))
        /\ Y(player_position(execute_move_unchecked(game, p, MovePiece(MovePieces[i])).board,
                             p)) = GoalRow(p)

\* C27: when the player to move can step onto its goal row with one legal
\* move, the search returns, at every depth >= 1, that player's winning
\* sentinel (WINNING_SCORE for White, the maximizer; LOOSING_SCORE for
\* Black, the minimizer) and a move
WinInOneIsSentinel ==
    (op = "alpha_beta" /\ arg.depth >= 1 /\ CanStepOntoGoalRow(TheGame, arg.player)) =>
        /\ ret.score = IF arg.player = "White" THEN WINNING_SCORE ELSE LOOSING_SCORE
        /\ ret.best_move.some

----------------------------------------------------------------------------
(* A game from Game::new() in which White walls off row 8 except for the   *)
(* corner (0,8) while Black walks about.                                   *)

MaxPocketPlies == 12

\* piece moves as the commands without a collision direction give them
StepMoves == {MovePiece(MovePieces[i]) : i \in {1, 6, 11, 16}}

\* the walls White places: the first four on its turns 1..4, the last on
\* its turn 6
PocketWalls ==
    <<PlaceWall("Horizontal", 1, 7), PlaceWall("Horizontal", 3, 7),
      PlaceWall("Horizontal", 5, 7), PlaceWall("Horizontal", 7, 7),
      PlaceWall("Vertical", 0, 7)>>

\* the moves White chooses from on its n-th turn
WhiteChoices(n) ==
    IF n <= 4 THEN {PocketWalls[n]}
    ELSE IF n = 6 THEN {PocketWalls[5]}
    ELSE StepMoves

\* White's turn: the wall of the turn, or a step on the fifth and later turns
WhiteTurn ==
    /\ plies < MaxPocketPlies
    /\ player = "White"
    /\ \E mv \in WhiteChoices((plies \div 2) + 1) :
          /\ is_move_legal(TheGame, player, mv)
          /\ LET next_game_state == execute_move_unchecked(TheGame, player, mv)
             IN  /\ player' = next_game_state.player
                 /\ walls' = next_game_state.board.walls
                 /\ player_positions' = next_game_state.board.player_positions
                 /\ walls_left' = next_game_state.walls_left
          /\ arg' = [player |-> player, move |-> mv]
    /\ plies' = plies + 1
    /\ op' = "execute_move"
    /\ UNCHANGED ret

\* Black's turn: any legal step
BlackTurn ==
    /\ plies < MaxPocketPlies
    /\ player = "Black"
    /\ \E mv \in StepMoves :
          /\ is_move_legal(TheGame, player, mv)
          /\ LET next_game_state == execute_move_unchecked(TheGame, player, mv)
             IN  /\ player' = next_game_state.player
                 /\ walls' = next_game_state.board.walls
                 /\ player_positions' = next_game_state.board.player_positions
                 /\ walls_left' = next_game_state.walls_left
          /\ arg' = [player |-> player, move |-> mv]
    /\ plies' = plies + 1
    /\ op' = "execute_move"
    /\ UNCHANGED ret

NextPocket == WhiteTurn \/ BlackTurn

SpecPocket == InitWalls /\ [][NextPocket]_vars

\* C28: in every state reached from Game::new() by legal moves each player
\* has a path to its goal row: a_star returns Some for White and for Black
PathsNeverLost ==
    /\ a_star(TheBoard, "White").some
    /\ a_star(TheBoard, "Black").some

----------------------------------------------------------------------------
\* C29: every legal piece move puts the mover on another cell: no turn of
\* the game executes a MovePiece, a collision move whose
\* direction_on_collision points back at the mover included, after which
\* the mover stands where it stood while the turn passes to the opponent
PieceMoveChangesCell ==
    [][(op' = "execute_move" /\ arg'.type = "MovePiece") =>
          player_positions'[as_index(player)] # player_positions[as_index(player)]]_vars

----------------------------------------------------------------------------
(* The move list on a board without walls, both players holding all their  *)
(* walls: the mover on its start cell, the opponent on any other cell.     *)

AllCells ==
    {PiecePosition(cx, cy) : cx \in 0..(PIECE_GRID_WIDTH - 1), cy \in 0..(PIECE_GRID_HEIGHT - 1)}

InitRing ==
    /\ player \in Players
    /\ walls = EmptyWalls
    /\ walls_left = Game_new.walls_left
    /\ \E c \in AllCells :
          /\ c # Game_new.board.player_positions[as_index(player)]
          /\ player_positions =
                [i \in 0..1 |-> IF i = as_index(player)
                                 THEN Game_new.board.player_positions[i] ELSE c]
    /\ plies = 0
    /\ op = "input"
    /\ arg = [player |-> player]
    /\ ret = None

SpecRing == InitRing /\ [][NextOrder]_vars

\* the wall placements of a move list, in its order
WallPart(list) ==
    LET IsWall(mv) == mv.type = "PlaceWall"
    IN  SelectSeq(list, IsWall)

\* C30: whatever cell the opponent stands on, the rings around it visit
\* each of the 64 wall slots exactly once and the loop ends: on a board
\* without walls, for a player with walls left, each (orientation, slot)
\* candidate is in the list exactly once, 128 wall placements in all
RingsVisitEachSlotOnce ==
    op = "moves" =>
        LET ws == WallPart(ret.moves)
        IN  /\ Len(ws) = 2 * WALL_GRID_WIDTH * WALL_GRID_HEIGHT
            /\ \A o \in 1..2, wx \in 0..(WALL_GRID_WIDTH - 1), wy \in 0..(WALL_GRID_HEIGHT - 1) :
                  Cardinality({k \in 1..Len(ws) : ws[k] = PlaceWall(Orientations[o], wx, wy)}) = 1

\* the opponent in the corner (8,8): the first wall candidates are those of
\* the slot (7,7), the only slot of the first ring inside the grid, and the
\* slot (0,0) of the eighth ring is in the list
CornerRingWitness ==
    /\ op = "moves"
    /\ player_positions[as_index(opponent(player))] = PiecePosition(8, 8)
    /\ WallPart(ret.moves)[1] = PlaceWall("Horizontal", 7, 7)
    /\ WallPart(ret.moves)[3].y = 6
    /\ \E k \in 1..Len(ret.moves) : ret.moves[k] = PlaceWall("Vertical", 0, 0)

----------------------------------------------------------------------------
\* C24: among the entries of the open set with the f of the popped entry,
\* the popped entry is the one inserted first
TiesPoppedInInsertionOrder ==
    op = "open_set" =>
        \A n \in 1..Len(ret.pops) :
            LET pop == ret.pops[n]
            IN  \A i \in 1..Len(pop.open_set) :
                    pop.open_set[i][1] = pop.open_set[pop.popped][1] => pop.popped <= i

\* C24, amended: the popped entry has the least f of the open set, and
\* among the entries of that f it is the one whose cell has the least
\* index y * 9 + x, whenever it was inserted
TiesPoppedByPosition ==
    op = "open_set" =>
        \A n \in 1..Len(ret.pops) :
            LET pop == ret.pops[n]
                e == pop.open_set[pop.popped]
            IN  \A i \in 1..Len(pop.open_set) :
                    \/ e[1] < pop.open_set[i][1]
                    \/ (e[1] = pop.open_set[i][1] /\ e[2] <= pop.open_set[i][2])

\* Black's search behind a wall across column 4: some pop takes an entry
\* although an entry of the same f was inserted before it
LaterEntryPoppedWitness ==
    /\ op = "open_set"
    /\ arg.player = "Black"
    /\ \E n \in 1..Len(ret.pops) :
          LET pop == ret.pops[n]
          IN  \E i \in 1..Len(pop.open_set) :
                  /\ i < pop.popped
                  /\ pop.open_set[i][1] = pop.open_set[pop.popped][1]

====
